---- MODULE Spec2Model ----
(***************************************************************************)
(* Model of packages/next/src/server/request/root-params.ts: the           *)
(* unstable_rootParams resolver, the CachedParams identity cache, the      *)
(* partition decision createPrerenderParams and the two promise builders   *)
(* makeErroringRootParams / makeUntrackedRootParams, together with the     *)
(* consumer operations on the promises they build (property read,          *)
(* property write, await) and the render's abort signal.                   *)
(*                                                                         *)
(* One behaviour is one render: one work store with one rootParams object. *)
(* Promises are heap objects with an identity (an index into `promises`).  *)
(***************************************************************************)
EXTENDS Naturals, Sequences, FiniteSets, TLC

\* ---------------------------------------------------------------- bounds
\* resolver calls per render
MaxCalls == 2
\* reads of one trapped key that the model follows
MaxTrapReads == 2

\* ------------------------------------------------------------ vocabulary
Keys == {"lang", "locale", "then"}
WriteValues == {"w1", "w2"}
ParamRefs == {"P1"}
MaxId == 2 * MaxCalls + 1
Ids == 1..MaxId
Undefined == "undefined"
Intrinsic == "[intrinsic]"

\* utils.ts is not part of the sources at hand: the reserved names of section 4.4
wellKnownProperties == {"then", "catch", "finally", "status"}

\* members every promise inherits from Promise.prototype
PromisePrototype == {"then", "catch", "finally"}

\* utils.ts: the property-path tag of an access, 'rootParams' plus the key
describeStringPropertyAccess(target, prop) == <<target, prop>>

\* the value the render engine puts under key k: a placeholder when k is a
\* fallback (placeholder) key, the concrete segment value otherwise
ParamValue(k, fallbackKeys) ==
    IF k \in fallbackKeys THEN "%%drp:" \o k \o "%%" ELSE "val:" \o k

\* ------------------------------------------------------------ work units
\* workUnitAsyncStorage.getStore(): undefined, or a store with a type; the
\* prerender-ppr store carries dynamicTracking, the prerender store the
\* renderSignal (one signal per render: the variable renderSignalAborted)
NoUnit == [type |-> "undefined", dynamicTracking |-> "-"]
PrerenderStore == [type |-> "prerender", dynamicTracking |-> "-"]
PrerenderStorePPR == [type |-> "prerender-ppr", dynamicTracking |-> "tracking"]
PrerenderStoreLegacy == [type |-> "prerender-legacy", dynamicTracking |-> "-"]
RequestStore == [type |-> "request", dynamicTracking |-> "-"]
WorkUnitStores ==
    {NoUnit, PrerenderStore, PrerenderStorePPR, PrerenderStoreLegacy, RequestStore}

\* workAsyncStorage.getStore() outside any render
NoWorkStore ==
    [present |-> FALSE, rootParams |-> "-", route |-> "-",
     fallbackRouteParams |-> [isNull |-> TRUE, keys |-> {}]]

\* ------------------------------------------------- external collaborators
\* dynamic-rendering.ts and dynamic-rendering-utils.ts are not part of the
\* sources at hand; section 6 and section 9 of the specification give their
\* contracts. Each operator is the record of one invocation.
NoExpression == <<>>

postponeWithTracking(route, expression, dynamicTracking) ==
    [prim |-> "postponeWithTracking", route |-> route,
     expression |-> expression, handle |-> dynamicTracking, throws |-> "Postpone"]

throwToInterruptStaticGeneration(expression, store, prerenderStore) ==
    [prim |-> "throwToInterruptStaticGeneration", route |-> store.route,
     expression |-> expression, handle |-> prerenderStore.type, throws |-> "DynamicServerError"]

trackDynamicDataInDynamicRender(store, workUnitStore) ==
    [prim |-> "trackDynamicDataInDynamicRender", route |-> store.route,
     expression |-> NoExpression, handle |-> workUnitStore.type, throws |-> "-"]

\* a promise that rejects when the signal aborts and never resolves
makeHangingPromise(signalAborted, expression) ==
    [state |-> IF signalAborted THEN "rejected" ELSE "pending",
     value |-> "HangingPromiseRejectionError"]

makeHangingPromiseCall(expression) ==
    [prim |-> "makeHangingPromise", route |-> "-",
     expression |-> expression, handle |-> "renderSignal", throws |-> "-"]

\* ------------------------------------------------------- promise objects
NoProp == [kind |-> "none", value |-> Undefined, store |-> NoUnit]
DataProp(v) == [kind |-> "data", value |-> v, store |-> NoUnit]
\* the get/set accessor pair of lines 137-171; its closure holds prerenderStore
AccessorProp(prerenderStore) ==
    [kind |-> "accessor", value |-> Undefined, store |-> prerenderStore]

\* a promise object: its settlement, its own properties and, for the claims, the
\* path that created it and the type of the work unit store it was created under
FreeSlot ==
    [state |-> "free", value |-> "-", origin |-> "-", unit |-> "-",
     props |-> [k \in Keys |-> NoProp]]

\* Promise.resolve(underlyingParams): fulfilled with the ParamSet object itself
PromiseResolve(underlyingParams, origin, unit, props) ==
    [state |-> "fulfilled", value |-> underlyingParams, origin |-> origin,
     unit |-> unit, props |-> props]

\* ------------------------------------------------------------- the state
VARIABLES
    workStore,            \* the render's work store (rootParams, route, fallbackRouteParams)
    params,               \* the ParamSet objects: reference -> mapping key -> value
    CachedParams,         \* the WeakMap of line 23: ParamSet reference -> promise id, 0 = no entry
    promises,             \* the heap of promise objects, by id
    nextId,               \* the next fresh object identity
    renderSignalAborted,  \* prerenderStore.renderSignal.aborted
    results,              \* the resolver calls made, in order: the promise each returned
    trapReads,            \* per key: how often the trapped getter ran
    interruptions,        \* per key: how often a read invoked postpone or interrupt for it
    written,              \* per key: the value the consumer assigned last, "-" if none
    lastOp                \* the operation that ran last: its inputs, effects and result

vars ==
    <<workStore, params, CachedParams, promises, nextId, renderSignalAborted,
      results, trapReads, interruptions, written, lastOp>>

\* the part of the state the functions of root-params.ts read and write
Machine ==
    [CachedParams |-> CachedParams, promises |-> promises, nextId |-> nextId,
     params |-> params, signalAborted |-> renderSignalAborted]

\* Object.keys(underlyingParams)
ObjectKeys(m, underlyingParams) == DOMAIN m.params[underlyingParams]

\* lines 84-95: the hanging-promise path of createPrerenderParams
HangingPath(underlyingParams, m) ==
    LET cachedParams == m.CachedParams[underlyingParams]
        id == m.nextId
        made == makeHangingPromise(m.signalAborted, <<"params">>)
        promise == [state |-> made.state, value |-> made.value, origin |-> "hanging",
                    unit |-> "prerender", props |-> [k \in Keys |-> NoProp]]
    IN  IF cachedParams # 0
        THEN [ret |-> cachedParams, m |-> m, effects |-> <<>>, path |-> "hanging", hit |-> TRUE]
        ELSE [ret |-> id,
              m |-> [m EXCEPT !.CachedParams[underlyingParams] = id,
                              !.promises[id] = promise,
                              !.nextId = id + 1],
              effects |-> <<makeHangingPromiseCall(<<"params">>)>>,
              path |-> "hanging", hit |-> FALSE]

\* an erroring builder that checks the placeholder keys before the reserved names
ErroringPropTrapsReserved(obj, prop, fallbackParams, prerenderStore) ==
    IF prop \in fallbackParams
    THEN AccessorProp(prerenderStore)
    ELSE IF prop \in wellKnownProperties
    THEN NoProp
    ELSE DataProp(obj[prop])

\* lines 131-176: the property installed for one key of underlyingParams
ErroringProp(obj, prop, fallbackParams, prerenderStore) ==
    IF prop \in wellKnownProperties
    THEN NoProp
    ELSE IF prop \in fallbackParams
         THEN AccessorProp(prerenderStore)
         ELSE DataProp(obj[prop])

\* an erroring builder without the cache lookup of lines 120-123
makeErroringRootParamsUncached(underlyingParams, fallbackParams, prerenderStore, m) ==
    LET id == m.nextId
        obj == m.params[underlyingParams]
        promise ==
            PromiseResolve(underlyingParams, "erroring", prerenderStore.type,
                [k \in Keys |->
                    IF k \in ObjectKeys(m, underlyingParams)
                    THEN ErroringProp(obj, k, fallbackParams, prerenderStore)
                    ELSE NoProp])
    IN  [ret |-> id,
         m |-> [m EXCEPT !.CachedParams[underlyingParams] = id,
                         !.promises[id] = promise,
                         !.nextId = id + 1],
         effects |-> <<>>, path |-> "erroring", hit |-> FALSE]

\* an erroring builder that, on a cache hit, defines the properties again on the
\* cached promise
makeErroringRootParamsRetrap(underlyingParams, fallbackParams, prerenderStore, m) ==
    LET cachedParams == m.CachedParams[underlyingParams]
        built == makeErroringRootParamsUncached(underlyingParams, fallbackParams,
                                                prerenderStore, m)
    IN  IF cachedParams # 0
        THEN [ret |-> cachedParams,
              m |-> [m EXCEPT !.promises[cachedParams].props =
                                  built.m.promises[built.ret].props],
              effects |-> <<>>, path |-> "erroring", hit |-> TRUE]
        ELSE built

\* lines 114-179
makeErroringRootParams(underlyingParams, fallbackParams, prerenderStore, m) ==
    LET cachedParams == m.CachedParams[underlyingParams]
        id == m.nextId
        obj == m.params[underlyingParams]
        promise ==
            PromiseResolve(underlyingParams, "erroring", prerenderStore.type,
                [k \in Keys |->
                    IF k \in ObjectKeys(m, underlyingParams)
                    THEN ErroringProp(obj, k, fallbackParams, prerenderStore)
                    ELSE NoProp])
    IN  IF cachedParams # 0
        THEN [ret |-> cachedParams, m |-> m, effects |-> <<>>, path |-> "erroring", hit |-> TRUE]
        ELSE [ret |-> id,
              m |-> [m EXCEPT !.CachedParams[underlyingParams] = id,
                              !.promises[id] = promise,
                              !.nextId = id + 1],
              effects |-> <<>>, path |-> "erroring", hit |-> FALSE]

\* lines 193-200: the property installed for one key of underlyingParams
UntrackedProp(obj, prop) ==
    IF prop \in wellKnownProperties THEN NoProp ELSE DataProp(obj[prop])

\* an untracked builder whose lookup always misses, as a lookup does that runs
\* before the store of another call that also missed
makeUntrackedRootParamsRacing(underlyingParams, m) ==
    LET id == m.nextId
        obj == m.params[underlyingParams]
        promise ==
            PromiseResolve(underlyingParams, "untracked", "-",
                [k \in Keys |->
                    IF k \in ObjectKeys(m, underlyingParams)
                    THEN UntrackedProp(obj, k)
                    ELSE NoProp])
    IN  [ret |-> id,
         m |-> [m EXCEPT !.CachedParams[underlyingParams] = id,
                         !.promises[id] = promise,
                         !.nextId = id + 1],
         effects |-> <<>>, path |-> "untracked", hit |-> FALSE]

\* lines 181-203
makeUntrackedRootParams(underlyingParams, m) ==
    LET cachedParams == m.CachedParams[underlyingParams]
        id == m.nextId
        obj == m.params[underlyingParams]
        promise ==
            PromiseResolve(underlyingParams, "untracked", "-",
                [k \in Keys |->
                    IF k \in ObjectKeys(m, underlyingParams)
                    THEN UntrackedProp(obj, k)
                    ELSE NoProp])
    IN  IF cachedParams # 0
        THEN [ret |-> cachedParams, m |-> m, effects |-> <<>>, path |-> "untracked", hit |-> TRUE]
        ELSE [ret |-> id,
              m |-> [m EXCEPT !.CachedParams[underlyingParams] = id,
                              !.promises[id] = promise,
                              !.nextId = id + 1],
              effects |-> <<>>, path |-> "untracked", hit |-> FALSE]

\* a decision that looks only at whether fallbackParams is set
hasFallbackParams(underlyingParams, store, m) == ~store.fallbackRouteParams.isNull

\* lines 70-78: fallbackParams is set and some key of underlyingParams is in it
hasSomeFallbackParams(underlyingParams, store, m) ==
    /\ ~store.fallbackRouteParams.isNull
    /\ \E key \in ObjectKeys(m, underlyingParams) :
          key \in store.fallbackRouteParams.keys

\* a partition decision with no hanging path: the erroring builder is used
\* whatever the type of the prerender store
createPrerenderParamsNoHanging(underlyingParams, store, prerenderStore, m) ==
    IF hasSomeFallbackParams(underlyingParams, store, m)
    THEN makeErroringRootParams(underlyingParams,
             store.fallbackRouteParams.keys, prerenderStore, m)
    ELSE makeUntrackedRootParams(underlyingParams, m)

\* lines 65-112
createPrerenderParams(underlyingParams, store, prerenderStore, m) ==
    IF hasSomeFallbackParams(underlyingParams, store, m)
    THEN IF prerenderStore.type = "prerender"
         THEN HangingPath(underlyingParams, m)
         ELSE makeErroringRootParams(underlyingParams,
                  store.fallbackRouteParams.keys, prerenderStore, m)
    ELSE makeUntrackedRootParams(underlyingParams, m)

\* ------------------------------------------------------------ the resolver
\* line 25: an async function returns a fresh promise on every call, settled
\* with what the body returns or throws
AsyncResult(m, state, value) ==
    [ret |-> m.nextId,
     m |-> [m EXCEPT !.promises[m.nextId] =
                         [state |-> state, value |-> value, origin |-> "async",
                          unit |-> "-", props |-> [k \in Keys |-> NoProp]],
                     !.nextId = @ + 1]]

\* a prerender branch that interrupts eagerly, as the legacy branch does, when
\* a placeholder key is present
PrerenderBranchInterrupts(store, workUnitStore, m) ==
    LET built == createPrerenderParams(store.rootParams, store, workUnitStore, m)
        call == throwToInterruptStaticGeneration(<<"rootParams">>, store, workUnitStore)
    IN  IF built.path = "hanging"
        THEN [m |-> built.m, effects |-> built.effects \o <<call>>, throws |-> call.throws]
        ELSE [m |-> built.m, effects |-> built.effects, throws |-> "-"]

\* lines 34-38: the result of createPrerenderParams is dropped, its effects stay
PrerenderBranch(store, workUnitStore, m) ==
    LET built == createPrerenderParams(store.rootParams, store, workUnitStore, m)
    IN  [m |-> built.m, effects |-> built.effects, throws |-> "-"]

\* a resolver that handles prerender-ppr per property, as the TODO of line 43
\* proposes, and no longer postpones eagerly
PprBranchPerProperty(store, workUnitStore, m) ==
    PrerenderBranch(store, workUnitStore, m)

\* lines 39-48
PprBranch(store, workUnitStore, m) ==
    LET call == postponeWithTracking(store.route, <<"rootParams">>,
                                     workUnitStore.dynamicTracking)
    IN  [m |-> m, effects |-> <<call>>, throws |-> call.throws]

\* a legacy branch copied from the ppr branch: it postpones instead of interrupting
LegacyBranchPostpones(store, workUnitStore, m) ==
    LET call == postponeWithTracking(store.route, <<"rootParams">>,
                                     workUnitStore.dynamicTracking)
    IN  [m |-> m, effects |-> <<call>>, throws |-> call.throws]

\* a legacy branch that hands the ParamSet to the partition decision, so that
\* the erroring builder traps per property
LegacyBranchPerProperty(store, workUnitStore, m) ==
    PrerenderBranch(store, workUnitStore, m)

\* lines 49-55
LegacyBranch(store, workUnitStore, m) ==
    LET call == throwToInterruptStaticGeneration(<<"rootParams">>, store, workUnitStore)
    IN  [m |-> m, effects |-> <<call>>, throws |-> call.throws]

\* lines 33-56: the dispatch on the work unit store; `throws` is the exception
\* that ends the call there, "-" when control reaches line 60
Dispatch(store, workUnitStore, m) ==
    IF workUnitStore.type = "prerender"
    THEN PrerenderBranch(store, workUnitStore, m)
    ELSE IF workUnitStore.type = "prerender-ppr"
    THEN PprBranch(store, workUnitStore, m)
    ELSE IF workUnitStore.type = "prerender-legacy"
    THEN LegacyBranch(store, workUnitStore, m)
    ELSE [m |-> m, effects |-> <<>>, throws |-> "-"]

\* a resolver whose last statement lost its `return`
ReturnNothing(store, m) == AsyncResult(m, "fulfilled", Undefined)

\* line 62: return workStore.rootParams, which fulfils the async result with it
ReturnRootParams(store, m) == AsyncResult(m, "fulfilled", store.rootParams)

\* a resolver that records the dynamic access before it checks the work store
MissingWorkStoreTracked(store, workUnitStore, m) ==
    LET r == AsyncResult(m, "rejected", "InvariantError")
    IN  [m |-> r.m, effects |-> <<trackDynamicDataInDynamicRender(store, workUnitStore)>>,
         ret |-> r.ret]

\* lines 29-31: no work store, the call throws before anything else runs
MissingWorkStore(store, workUnitStore, m) ==
    LET r == AsyncResult(m, "rejected", "InvariantError")
    IN  [m |-> r.m, effects |-> <<>>, ret |-> r.ret]

\* a resolver without the tracking call of line 60
unstable_rootParamsUntracked(store, workUnitStore, m) ==
    IF ~store.present
    THEN MissingWorkStore(store, workUnitStore, m)
    ELSE LET d == Dispatch(store, workUnitStore, m)
         IN  IF d.throws # "-"
             THEN LET r == AsyncResult(d.m, "rejected", d.throws)
                  IN  [m |-> r.m, effects |-> d.effects, ret |-> r.ret]
             ELSE LET r == ReturnRootParams(store, d.m)
                  IN  [m |-> r.m, effects |-> d.effects, ret |-> r.ret]

\* lines 25-63
unstable_rootParams(store, workUnitStore, m) ==
    IF ~store.present
    THEN MissingWorkStore(store, workUnitStore, m)
    ELSE LET d == Dispatch(store, workUnitStore, m)
             track == trackDynamicDataInDynamicRender(store, workUnitStore)
         IN  IF d.throws # "-"
             THEN LET r == AsyncResult(d.m, "rejected", d.throws)
                  IN  [m |-> r.m, effects |-> d.effects, ret |-> r.ret]
             ELSE LET r == ReturnRootParams(store, d.m)
                  IN  [m |-> r.m, effects |-> d.effects \o <<track>>, ret |-> r.ret]

\* ------------------------------------------------------------------ Init
FallbackOptions ==
    {[isNull |-> TRUE, keys |-> {}]}
        \cup {[isNull |-> FALSE, keys |-> K] : K \in SUBSET Keys}

NoRet == [id |-> 0, state |-> "-", value |-> "-"]

OpRecord(op, store, workUnitStore, key, arg, effects, ret, path, hit) ==
    [op |-> op, present |-> store.present, unit |-> workUnitStore, key |-> key,
     arg |-> arg, effects |-> effects, ret |-> ret, path |-> path, hit |-> hit]

Init ==
    /\ \E S \in SUBSET Keys, F \in FallbackOptions :
          /\ workStore = [present |-> TRUE, rootParams |-> "P1", route |-> "/[lang]",
                          fallbackRouteParams |-> F]
          /\ params = [r \in ParamRefs |-> [k \in S |-> ParamValue(k, F.keys)]]
    /\ CachedParams = [r \in ParamRefs |-> 0]
    /\ promises = [i \in Ids |-> FreeSlot]
    /\ nextId = 1
    /\ renderSignalAborted = FALSE
    /\ results = <<>>
    /\ trapReads = [k \in Keys |-> 0]
    /\ interruptions = [k \in Keys |-> 0]
    /\ written = [k \in Keys |-> "-"]
    /\ lastOp = OpRecord("init", workStore, NoUnit, "-", "-", <<>>, NoRet, "-", FALSE)

\* the machine part of the state becomes m
SetMachine(m) ==
    /\ CachedParams' = m.CachedParams
    /\ promises' = m.promises
    /\ nextId' = m.nextId
    /\ params' = m.params

\* ---------------------------------------------------------------- actions
\* what a caller holds after a call returned promise `id`
PromiseRet(m, id) ==
    [id |-> id, state |-> m.promises[id].state, value |-> m.promises[id].value]

\* application code calls unstable_rootParams(), inside the render or outside it
CallRootParams(store, workUnitStore) ==
    /\ Len(results) < MaxCalls
    /\ LET out == unstable_rootParams(store, workUnitStore, Machine)
       IN  /\ SetMachine(out.m)
           /\ results' = Append(results,
                  [id |-> out.ret, unit |-> workUnitStore.type, present |-> store.present])
           /\ lastOp' = OpRecord("unstable_rootParams", store, workUnitStore, "-", "-",
                                 out.effects, PromiseRet(out.m, out.ret), "-", FALSE)
    /\ UNCHANGED <<workStore, renderSignalAborted, trapReads, interruptions,
                   written>>

BuilderStep(op, prerenderStore, out) ==
    /\ SetMachine(out.m)
    /\ lastOp' = OpRecord(op, workStore, prerenderStore, "-", "-", out.effects,
                          PromiseRet(out.m, out.ret), out.path, out.hit)
    /\ UNCHANGED <<workStore, renderSignalAborted, results, trapReads,
                   interruptions, written>>

\* the three functions behind the resolver, called on the render's ParamSet
\* under each work unit store their parameter types admit
CallCreatePrerenderParams(prerenderStore) ==
    /\ nextId < MaxId
    /\ BuilderStep("createPrerenderParams", prerenderStore,
          createPrerenderParams(workStore.rootParams, workStore, prerenderStore, Machine))

CallMakeErroringRootParams(prerenderStore) ==
    /\ nextId < MaxId
    /\ ~workStore.fallbackRouteParams.isNull
    /\ BuilderStep("makeErroringRootParams", prerenderStore,
          makeErroringRootParams(workStore.rootParams,
              workStore.fallbackRouteParams.keys, prerenderStore, Machine))

\* makeErroringRootParams called with a fallbackParams argument of its own, which
\* need not be the work store's
CallMakeErroringRootParamsWith(fallbackParams, prerenderStore) ==
    /\ nextId < MaxId
    /\ BuilderStep("makeErroringRootParams", prerenderStore,
          makeErroringRootParams(workStore.rootParams, fallbackParams, prerenderStore,
                                 Machine))

CallMakeUntrackedRootParams ==
    /\ nextId < MaxId
    /\ BuilderStep("makeUntrackedRootParams", NoUnit,
          makeUntrackedRootParams(workStore.rootParams, Machine))

\* the consumer's promise: the one the builders built for the render's ParamSet
Wrapper == CachedParams[workStore.rootParams]

\* a getter that postpones whatever the store type is
TrapGetAlwaysPostpones(store, prerenderStore, prop) ==
    postponeWithTracking(store.route, describeStringPropertyAccess("rootParams", prop),
                         prerenderStore.dynamicTracking)

\* lines 138-161: the getter of a trapped key; prerenderStore is the store the
\* builder was called with
TrapGet(store, prerenderStore, prop) ==
    LET expression == describeStringPropertyAccess("rootParams", prop)
    IN  IF prerenderStore.type = "prerender-ppr"
        THEN postponeWithTracking(store.route, expression, prerenderStore.dynamicTracking)
        ELSE throwToInterruptStaticGeneration(expression, store, prerenderStore)

\* promise[prop]: an own data property (lines 173, 198 or 163-167), the getter of
\* a trapped key, or the prototype chain of a promise
GetProp(store, promise, prop) ==
    LET p == promise.props[prop]
    IN  IF p.kind = "data"
        THEN [effects |-> <<>>, state |-> "returned", value |-> p.value]
        ELSE IF p.kind = "accessor"
        THEN LET call == TrapGet(store, p.store, prop)
             IN  [effects |-> <<call>>,
                  state |-> IF call.throws # "-" THEN "thrown" ELSE "returned",
                  value |-> IF call.throws # "-" THEN call.throws ELSE Undefined]
        ELSE [effects |-> <<>>, state |-> "returned",
              value |-> IF prop \in PromisePrototype THEN Intrinsic ELSE Undefined]

\* an accessor with no setter: the assignment is ignored
SetPropIgnored(promise, prop, newValue) == promise

\* a setter that redefines every trapped key of the promise, not only its own
SetPropResolvesAll(promise, prop, newValue) ==
    [promise EXCEPT !.props =
        [k \in Keys |-> IF k = prop \/ promise.props[k].kind = "accessor"
                        THEN DataProp(newValue)
                        ELSE promise.props[k]]]

\* promise[prop] = newValue: the setter of lines 162-168 on a trapped key, an
\* ordinary assignment on any other
SetProp(promise, prop, newValue) ==
    [promise EXCEPT !.props[prop] = DataProp(newValue)]

\* a one-shot getter: it replaces itself by a data property once it has run
AfterGetOneShot(promise, prop) ==
    IF promise.props[prop].kind = "accessor"
    THEN [promise EXCEPT !.props[prop] = DataProp(Undefined)]
    ELSE promise

\* the promise after promise[prop] was read: the getter of lines 138-161 only
\* calls the interruption, it defines and assigns nothing
AfterGet(promise, prop) == promise

\* the postpone / interrupt invocations among `effects` that are tagged with prop
Interruptions(effects, prop) ==
    Cardinality({i \in DOMAIN effects :
        /\ effects[i].prim \in {"postponeWithTracking", "throwToInterruptStaticGeneration"}
        /\ effects[i].expression = describeStringPropertyAccess("rootParams", prop)})

ReadProp(prop) ==
    /\ Wrapper # 0
    /\ LET got == GetProp(workStore, promises[Wrapper], prop)
           trapped == promises[Wrapper].props[prop].kind = "accessor"
       IN  /\ trapped => trapReads[prop] < MaxTrapReads
           /\ trapReads' = IF trapped THEN [trapReads EXCEPT ![prop] = @ + 1]
                                      ELSE trapReads
           /\ interruptions' =
                  [interruptions EXCEPT ![prop] = @ + Interruptions(got.effects, prop)]
           /\ lastOp' = OpRecord("read", workStore, NoUnit, prop, "-", got.effects,
                                 [id |-> 0, state |-> got.state, value |-> got.value],
                                 "-", FALSE)
    /\ promises' = [promises EXCEPT ![Wrapper] = AfterGet(@, prop)]
    /\ UNCHANGED <<workStore, params, CachedParams, nextId,
                   renderSignalAborted, results, written>>

WriteProp(prop, newValue) ==
    /\ Wrapper # 0
    /\ prop \in DOMAIN params[workStore.rootParams]
    /\ promises' = [promises EXCEPT ![Wrapper] = SetProp(@, prop, newValue)]
    /\ written' = [written EXCEPT ![prop] = newValue]
    /\ lastOp' = OpRecord("write", workStore, NoUnit, prop, newValue, <<>>, NoRet,
                          "-", FALSE)
    /\ UNCHANGED <<workStore, params, CachedParams, nextId, renderSignalAborted,
                   results, trapReads, interruptions>>

\* (await promise)[prop]: the value the promise is fulfilled with is the
\* ParamSet object itself (lines 128 and 190)
AwaitedProp(m, promise, prop) ==
    LET obj == m.params[promise.value]
    IN  IF prop \in DOMAIN obj THEN obj[prop] ELSE Undefined

ReadAwaited(prop) ==
    /\ Wrapper # 0
    /\ promises[Wrapper].state = "fulfilled"
    /\ lastOp' = OpRecord("readAwaited", workStore, NoUnit, prop, "-", <<>>,
                          [id |-> 0, state |-> "returned",
                           value |-> AwaitedProp(Machine, promises[Wrapper], prop)],
                          "-", FALSE)
    /\ UNCHANGED <<workStore, params, CachedParams, promises, nextId,
                   renderSignalAborted, results, trapReads, interruptions, written>>

\* the render engine aborts the prerender: every hanging promise bound to the
\* render signal rejects
AbortRender ==
    /\ ~renderSignalAborted
    /\ renderSignalAborted' = TRUE
    /\ promises' = [i \in Ids |->
                       IF promises[i].origin = "hanging" /\ promises[i].state = "pending"
                       THEN [promises[i] EXCEPT !.state = "rejected"]
                       ELSE promises[i]]
    /\ lastOp' = OpRecord("abortRender", workStore, NoUnit, "-", "-", <<>>, NoRet,
                          "-", FALSE)
    /\ UNCHANGED <<workStore, params, CachedParams, nextId, results, trapReads,
                   interruptions, written>>

\* the program as application code reaches it: the exported resolver, and the
\* render engine's abort
Next ==
    \/ \E store \in {workStore, NoWorkStore}, unit \in WorkUnitStores :
          CallRootParams(store, unit)
    \/ AbortRender

Spec == Init /\ [][Next]_vars

\* the functions behind the resolver called directly on the render's ParamSet,
\* and a consumer that reads, writes and awaits the promise they return
NextBuilders ==
    \/ \E unit \in {PrerenderStore, PrerenderStorePPR, PrerenderStoreLegacy} :
          CallCreatePrerenderParams(unit)
    \/ \E unit \in {PrerenderStorePPR, PrerenderStoreLegacy} :
          CallMakeErroringRootParams(unit)
    \/ CallMakeUntrackedRootParams
    \/ \E prop \in Keys : ReadProp(prop)
    \/ \E prop \in Keys, newValue \in WriteValues : WriteProp(prop, newValue)
    \/ \E prop \in Keys : ReadAwaited(prop)
    \/ AbortRender

SpecBuilders == Init /\ [][NextBuilders]_vars

\* the builders called in any order on the same ParamSet, the erroring builder
\* with any placeholder keys, interleaved with the consumer's reads and writes
NextCrossPath ==
    \/ \E unit \in {PrerenderStore, PrerenderStorePPR, PrerenderStoreLegacy} :
          CallCreatePrerenderParams(unit)
    \/ \E fallbackParams \in SUBSET {"lang", "then"},
          unit \in {PrerenderStorePPR, PrerenderStoreLegacy} :
          CallMakeErroringRootParamsWith(fallbackParams, unit)
    \/ CallMakeUntrackedRootParams
    \/ \E prop \in Keys : ReadProp(prop)
    \/ \E prop \in Keys, newValue \in WriteValues : WriteProp(prop, newValue)

SpecCrossPath == Init /\ [][NextCrossPath]_vars

\* ------------------------------------------------------------ the claims
\* the resolver calls made inside the render that returned a value (did not throw)
ReturnedCalls ==
    {i \in DOMAIN results :
        results[i].present /\ promises[results[i].id].state # "rejected"}

\* the ParamSet of the render has a present key that is a placeholder key
SomePlaceholderPresent == hasSomeFallbackParams(workStore.rootParams, workStore, Machine)

\* C1 (as the specification states it): any two resolver calls of one render
\* that return, return the same promise object.
C1_IdentityStability ==
    \A i, j \in ReturnedCalls : results[i].id = results[j].id

\* C2 (as the specification states it): under the prerender unit with a
\* placeholder key present, the promise the resolver returned is pending until
\* the render signal aborts and rejected afterwards; it is never fulfilled.
C2_HangingFuture ==
    \A i \in DOMAIN results :
        (results[i].present /\ results[i].unit = "prerender" /\ SomePlaceholderPresent)
            => /\ promises[results[i].id].state # "fulfilled"
               /\ ~renderSignalAborted => promises[results[i].id].state = "pending"
               /\ renderSignalAborted => promises[results[i].id].state = "rejected"

\* C4: inside a render with no work unit store, the promise the resolver
\* returns is fulfilled with a mapping that has exactly the keys and values of
\* the render's root ParamSet (the empty mapping when there are none).
C4_RootOnlyOutput ==
    \A i \in DOMAIN results :
        (results[i].present /\ results[i].unit = "undefined")
            => LET promise == promises[results[i].id]
               IN  /\ promise.state = "fulfilled"
                   /\ promise.value \in ParamRefs
                   /\ DOMAIN params[promise.value] = DOMAIN params[workStore.rootParams]
                   /\ \A k \in DOMAIN params[workStore.rootParams] :
                         params[promise.value][k] = ParamValue(k, workStore.fallbackRouteParams.keys)

C4_Witness ==
    \E i \in DOMAIN results :
        /\ results[i].present /\ results[i].unit = "undefined"
        /\ DOMAIN params[workStore.rootParams] = {"lang", "locale"}
        /\ promises[results[i].id].state = "fulfilled"

\* C6: a resolver call outside any render ends rejected with the invariant
\* error, having invoked no primitive (suspend, abort, recordDynamicAccess,
\* makeNeverSettlingFuture) and having left the identity cache and every
\* existing promise as they were, whatever the work unit store is.
C6_MissingScope ==
    [][(Len(results') > Len(results) /\ ~lastOp'.present)
         => /\ lastOp'.ret.state = "rejected"
            /\ lastOp'.ret.value = "InvariantError"
            /\ lastOp'.effects = <<>>
            /\ CachedParams' = CachedParams
            /\ \A i \in Ids : i # lastOp'.ret.id => promises'[i] = promises[i]]_vars

C6_Witness ==
    /\ lastOp.op = "unstable_rootParams" /\ ~lastOp.present
    /\ lastOp.unit.type = "prerender-ppr"
    /\ lastOp.ret.value = "InvariantError"

\* how often the last operation invoked primitive prim
Invocations(prim) ==
    Cardinality({i \in DOMAIN lastOp.effects : lastOp.effects[i].prim = prim})

\* C7: a resolver call inside a render under the prerender-ppr unit invokes
\* the suspend primitive exactly once, as its first effect (before anything is
\* returned), with the route, the API name 'rootParams' and the unit's tracking
\* handle, and never the abort primitive, whatever the placeholder keys.
C7_EagerSuspend ==
    (lastOp.op = "unstable_rootParams" /\ lastOp.present
        /\ lastOp.unit.type = "prerender-ppr")
        => /\ Invocations("postponeWithTracking") = 1
           /\ Invocations("throwToInterruptStaticGeneration") = 0
           /\ lastOp.effects[1].prim = "postponeWithTracking"
           /\ lastOp.effects[1].route = workStore.route
           /\ lastOp.effects[1].expression = <<"rootParams">>
           /\ lastOp.effects[1].handle = PrerenderStorePPR.dynamicTracking

C7_Witness ==
    /\ lastOp.op = "unstable_rootParams" /\ lastOp.present
    /\ lastOp.unit.type = "prerender-ppr"
    /\ SomePlaceholderPresent
    /\ Invocations("postponeWithTracking") = 1

\* C8: a resolver call inside a render under the prerender-legacy unit invokes
\* the abort primitive exactly once, as its first effect, with the API name
\* 'rootParams', and never the suspend primitive; the call ends by that abort,
\* so the caller gets no parameter mapping, whatever the placeholder keys.
C8_EagerAbort ==
    (lastOp.op = "unstable_rootParams" /\ lastOp.present
        /\ lastOp.unit.type = "prerender-legacy")
        => /\ Invocations("throwToInterruptStaticGeneration") = 1
           /\ Invocations("postponeWithTracking") = 0
           /\ lastOp.effects[1].prim = "throwToInterruptStaticGeneration"
           /\ lastOp.effects[1].expression = <<"rootParams">>
           /\ lastOp.ret.state = "rejected"
           /\ lastOp.ret.value \notin ParamRefs

C8_Witness ==
    /\ lastOp.op = "unstable_rootParams" /\ lastOp.present
    /\ lastOp.unit.type = "prerender-legacy"
    /\ ~SomePlaceholderPresent
    /\ lastOp.ret.state = "rejected"

\* ---- the claims about the builders and the promise they return
RootParamSet == params[workStore.rootParams]
PlaceholderKeys == workStore.fallbackRouteParams.keys

\* the render's promise was built by the erroring builder (always under
\* prerender-ppr or prerender-legacy)
ErroringWrapper == Wrapper # 0 /\ promises[Wrapper].origin = "erroring"

\* the keys the erroring builder traps: present, not reserved, a placeholder
TrappedAtBuild(k) ==
    k \in DOMAIN RootParamSet /\ k \notin wellKnownProperties /\ k \in PlaceholderKeys

\* the interruption the last operation invoked, if it is the only effect
InvokedOnly(prim, k) ==
    /\ Len(lastOp.effects) = 1
    /\ lastOp.effects[1].prim = prim
    /\ lastOp.effects[1].expression = <<"rootParams", k>>

\* C3 (as the specification states it): on a promise the erroring builder
\* built, no read - of promise[k] or of (await promise)[k] - returns the
\* placeholder value of a placeholder key k the consumer has not written,
\* unless the interruption was invoked for k before.
C3_NoPlaceholderLeak ==
    (/\ ErroringWrapper
     /\ lastOp.op \in {"read", "readAwaited"}
     /\ lastOp.key \in DOMAIN RootParamSet
     /\ lastOp.key \in PlaceholderKeys
     /\ written[lastOp.key] = "-"
     /\ lastOp.ret.state = "returned"
     /\ lastOp.ret.value = RootParamSet[lastOp.key])
        => trapReads[lastOp.key] > 0

\* C5: with no placeholder keys (fallbackRouteParams null or empty),
\* createPrerenderParams under the prerender unit returns a promise that is
\* fulfilled with the ParamSet, on which every non-reserved key of the ParamSet
\* is a data property - holding the ParamSet's value unless the consumer
\* assigned the key since - and invokes no primitive; no later read of a key,
\* on the promise or on the awaited mapping, invokes a primitive either.
C5_FullyKnownFastPath ==
    (workStore.fallbackRouteParams.isNull \/ PlaceholderKeys = {})
        => /\ (lastOp.op = "createPrerenderParams" /\ lastOp.unit.type = "prerender")
                => /\ lastOp.ret.state = "fulfilled"
                   /\ lastOp.ret.value = workStore.rootParams
                   /\ lastOp.effects = <<>>
                   /\ \A k \in DOMAIN RootParamSet \ wellKnownProperties :
                         /\ promises[lastOp.ret.id].props[k].kind = "data"
                         /\ written[k] = "-" =>
                               promises[lastOp.ret.id].props[k].value = ParamValue(k, {})
           /\ lastOp.op \in {"read", "readAwaited"}
                => lastOp.effects = <<>> /\ lastOp.ret.state = "returned"

C5_Witness ==
    /\ lastOp.op = "createPrerenderParams" /\ lastOp.unit.type = "prerender"
    /\ ~workStore.fallbackRouteParams.isNull /\ PlaceholderKeys = {}
    /\ DOMAIN RootParamSet = {"lang", "locale"}
    /\ ~lastOp.hit
    /\ promises[lastOp.ret.id].props["lang"] = DataProp("val:lang")

\* C9 (as the specification states it): on a promise the erroring builder
\* built, a read of a trapped key invokes exactly one interruption tagged
\* 'rootParams' plus the key, suspend under prerender-ppr and abort under
\* prerender-legacy; a read of a key of the ParamSet that is not a placeholder
\* key invokes no primitive and returns the ParamSet's value. (Stated for the
\* ParamSets the builder is meant for, those with a placeholder key present.)
C9_Original ==
    (ErroringWrapper /\ SomePlaceholderPresent /\ lastOp.op = "read")
        => /\ (TrappedAtBuild(lastOp.key) /\ written[lastOp.key] = "-")
                => /\ promises[Wrapper].unit = "prerender-ppr"
                        => InvokedOnly("postponeWithTracking", lastOp.key)
                   /\ promises[Wrapper].unit = "prerender-legacy"
                        => InvokedOnly("throwToInterruptStaticGeneration", lastOp.key)
           /\ (lastOp.key \in DOMAIN RootParamSet /\ lastOp.key \notin PlaceholderKeys)
                => /\ lastOp.effects = <<>>
                   /\ lastOp.ret.state = "returned"
                   /\ lastOp.ret.value = RootParamSet[lastOp.key]

\* C9 (amended): as above, but the second half is about the non-reserved keys
\* the consumer has not written: such a key of the ParamSet that is not a
\* placeholder key reads as the ParamSet's value; and every read of a key that
\* is not a placeholder key, reserved or written or not, invokes no primitive.
C9_PerPropertyInterruption ==
    (ErroringWrapper /\ lastOp.op = "read")
        => /\ (TrappedAtBuild(lastOp.key) /\ written[lastOp.key] = "-")
                => /\ promises[Wrapper].unit \in {"prerender-ppr", "prerender-legacy"}
                   /\ promises[Wrapper].unit = "prerender-ppr"
                        => InvokedOnly("postponeWithTracking", lastOp.key)
                   /\ promises[Wrapper].unit = "prerender-legacy"
                        => InvokedOnly("throwToInterruptStaticGeneration", lastOp.key)
           /\ lastOp.key \notin PlaceholderKeys
                => lastOp.effects = <<>> /\ lastOp.ret.state = "returned"
           /\ (/\ lastOp.key \in DOMAIN RootParamSet
               /\ lastOp.key \notin PlaceholderKeys
               /\ lastOp.key \notin wellKnownProperties
               /\ written[lastOp.key] = "-")
                => lastOp.ret.value = ParamValue(lastOp.key, PlaceholderKeys)

C9_Witness ==
    /\ ErroringWrapper /\ lastOp.op = "read"
    /\ promises[Wrapper].unit = "prerender-legacy"
    /\ lastOp.key = "lang" /\ TrappedAtBuild("lang") /\ written["lang"] = "-"
    /\ "locale" \in DOMAIN RootParamSet \ PlaceholderKeys
    /\ InvokedOnly("throwToInterruptStaticGeneration", "lang")
    /\ trapReads["lang"] = 2

\* C10: a write of v to a trapped key makes the key a data property holding
\* v; from then on every read of the key returns the value written last and
\* invokes no primitive, and nothing - no read, write or repeated resolution
\* of the ParamSet - makes the key an accessor again.
C10_WriteDowngradesTrap ==
    \A k \in Keys :
        (ErroringWrapper /\ TrappedAtBuild(k) /\ written[k] # "-")
            => /\ promises[Wrapper].props[k] = DataProp(written[k])
               /\ (lastOp.op = "read" /\ lastOp.key = k)
                    => /\ lastOp.effects = <<>>
                       /\ lastOp.ret.state = "returned"
                       /\ lastOp.ret.value = written[k]

C10_Witness ==
    /\ ErroringWrapper /\ TrappedAtBuild("lang")
    /\ trapReads["lang"] > 0
    /\ written["lang"] = "w2"
    /\ lastOp.op = "read" /\ lastOp.key = "lang" /\ lastOp.ret.value = "w2"

\* the last operation is a resolver call made inside the render
ResolverCallInRender == lastOp.op = "unstable_rootParams" /\ lastOp.present

\* the dynamic-access record is the last effect of the last operation, made
\* with the render's store and the call's work unit store
TrackedLast ==
    /\ Invocations("trackDynamicDataInDynamicRender") = 1
    /\ lastOp.effects[Len(lastOp.effects)].prim = "trackDynamicDataInDynamicRender"
    /\ lastOp.effects[Len(lastOp.effects)].route = workStore.route
    /\ lastOp.effects[Len(lastOp.effects)].handle = lastOp.unit.type

\* C11 (as the specification states it): every resolver call inside a render
\* records the dynamic access exactly once, after the dispatch, also when the
\* dispatch invoked suspend or abort.
C11_Original == ResolverCallInRender => TrackedLast

\* C11 (amended): a resolver call inside a render records the dynamic access
\* exactly once, after the dispatch, when the dispatch returns (no work unit
\* store, a request store, prerender); under prerender-ppr and prerender-legacy
\* the suspend or abort of the dispatch ends the call and nothing is recorded.
C11_DynamicAccessRecord ==
    ResolverCallInRender
        => IF lastOp.unit.type \in {"prerender-ppr", "prerender-legacy"}
           THEN Invocations("trackDynamicDataInDynamicRender") = 0
           ELSE TrackedLast

C11_Witness ==
    /\ ResolverCallInRender
    /\ lastOp.unit.type = "prerender"
    /\ SomePlaceholderPresent
    /\ Len(lastOp.effects) = 2
    /\ TrackedLast

\* the operations that resolve the ParamSet through a builder path
BuilderOps == {"createPrerenderParams", "makeErroringRootParams", "makeUntrackedRootParams"}

\* C12: an entry of the identity cache is never replaced; a builder call made
\* when the ParamSet has an entry - whatever path it takes, whatever placeholder
\* keys and work unit store it is given - returns the promise of that entry,
\* changes no promise (installs no trap) and creates none; a call made when
\* there is no entry stores the promise it returns.
C12_CrossPathIdentity ==
    [][/\ \A r \in ParamRefs : CachedParams[r] # 0 => CachedParams'[r] = CachedParams[r]
       /\ (lastOp'.op \in BuilderOps /\ Wrapper # 0)
            => /\ lastOp'.ret.id = Wrapper
               /\ lastOp'.hit
               /\ lastOp'.effects = <<>>
               /\ promises' = promises
               /\ nextId' = nextId
       /\ (lastOp'.op \in BuilderOps /\ Wrapper = 0)
            => /\ lastOp'.ret.id # 0
               /\ CachedParams'[workStore.rootParams] = lastOp'.ret.id]_vars

C12_Witness ==
    /\ Wrapper # 0 /\ promises[Wrapper].origin = "untracked"
    /\ lastOp.op = "makeErroringRootParams" /\ lastOp.hit
    /\ lastOp.unit.type = "prerender-legacy"
    /\ "lang" \in DOMAIN RootParamSet /\ "lang" \in PlaceholderKeys
    /\ promises[Wrapper].props["lang"].kind = "data"

\* the path the partition decision is stated to take for the render's ParamSet
\* and placeholder keys under the work unit store of the last operation
StatedPath ==
    IF \/ workStore.fallbackRouteParams.isNull
       \/ PlaceholderKeys = {}
       \/ (DOMAIN RootParamSet) \cap PlaceholderKeys = {}
    THEN "untracked"
    ELSE IF lastOp.unit.type = "prerender" THEN "hanging" ELSE "erroring"

\* C13: createPrerenderParams takes the untracked path iff the placeholder keys
\* are absent, empty or disjoint from the keys of the ParamSet; otherwise the
\* hanging path exactly under the prerender unit and the erroring builder
\* exactly under prerender-ppr and prerender-legacy; the promise a call creates
\* is the one of the path taken.
C13_PartitionDecision ==
    lastOp.op = "createPrerenderParams"
        => /\ lastOp.path = StatedPath
           /\ lastOp.path = "erroring"
                => lastOp.unit.type \in {"prerender-ppr", "prerender-legacy"}
           /\ ~lastOp.hit => promises[lastOp.ret.id].origin = lastOp.path

C13_Witness ==
    /\ lastOp.op = "createPrerenderParams" /\ ~lastOp.hit
    /\ lastOp.unit.type = "prerender-ppr"
    /\ DOMAIN RootParamSet = {"lang"} /\ PlaceholderKeys = {"locale"}
    /\ lastOp.path = "untracked"

\* the interruption a trapped key of the render's promise invokes when read
ModePrimitive ==
    IF promises[Wrapper].unit = "prerender-ppr"
    THEN "postponeWithTracking"
    ELSE "throwToInterruptStaticGeneration"

\* C14: while a trapped key of a promise the erroring builder built has not
\* been written, it stays an accessor and every read of it invokes the
\* interruption of the build's work unit store again: after n reads there were
\* n invocations for the key; and no read changes any promise.
C14_TrappedReadsRepeat ==
    /\ [](\A k \in Keys :
            (ErroringWrapper /\ TrappedAtBuild(k) /\ written[k] = "-")
                => /\ promises[Wrapper].props[k].kind = "accessor"
                   /\ interruptions[k] = trapReads[k]
                   /\ (lastOp.op = "read" /\ lastOp.key = k)
                        => InvokedOnly(ModePrimitive, k))
    /\ [][lastOp'.op = "read" => promises' = promises]_vars

C14_Witness ==
    /\ ErroringWrapper /\ promises[Wrapper].unit = "prerender-ppr"
    /\ TrappedAtBuild("lang") /\ written["lang"] = "-"
    /\ lastOp.op = "read" /\ lastOp.key = "lang"
    /\ trapReads["lang"] = MaxTrapReads /\ interruptions["lang"] = MaxTrapReads
    /\ promises[Wrapper].props["lang"].kind = "accessor"

\* the property of key k that the build of the erroring builder and the
\* consumer's writes alone produce
ProducedByReadsAndWrites(k) ==
    IF written[k] # "-"
    THEN promises[Wrapper].props[k] = DataProp(written[k])
    ELSE IF k \in wellKnownProperties
    THEN promises[Wrapper].props[k] = NoProp
    ELSE IF k \in PlaceholderKeys
    THEN /\ promises[Wrapper].props[k].kind = "accessor"
         /\ promises[Wrapper].props[k].store.type = promises[Wrapper].unit
    ELSE promises[Wrapper].props[k] = DataProp(RootParamSet[k])

\* C15: under any interleaving of builder calls, reads and writes, every
\* builder call made once the ParamSet has a promise returns that promise and
\* leaves it as it is, and each key of a promise the erroring builder built is
\* what the build and the writes alone produce: trapped if a placeholder key
\* never written, otherwise the value written last or else the ParamSet's.
C15_OrderingUnderInterleaving ==
    /\ [](ErroringWrapper => \A k \in DOMAIN RootParamSet : ProducedByReadsAndWrites(k))
    /\ [][(lastOp'.op \in BuilderOps /\ Wrapper # 0)
            => /\ lastOp'.ret.id = Wrapper
               /\ CachedParams'[workStore.rootParams] = Wrapper
               /\ promises'[Wrapper] = promises[Wrapper]]_vars

C15_Witness ==
    /\ ErroringWrapper
    /\ lastOp.op \in BuilderOps /\ lastOp.hit /\ lastOp.ret.id = Wrapper
    /\ TrappedAtBuild("lang") /\ written["lang"] = "w1"
    /\ promises[Wrapper].props["lang"] = DataProp("w1")
    /\ TrappedAtBuild("locale") /\ trapReads["locale"] > 0
    /\ promises[Wrapper].props["locale"].kind = "accessor"

\* the promises the builder paths created: one per CachedParams.set performed
StoredPromises ==
    {i \in Ids : promises[i].origin \in {"hanging", "erroring", "untracked"}}

\* C16: the lookup and the store of a builder path are one step, so whatever
\* the order of the calls for the same ParamSet, at most one store is performed
\* for it and a call observes a miss only when no call stored before it.
C16_AtomicCachePopulation ==
    /\ [](Cardinality(StoredPromises) <= 1)
    /\ [][(lastOp'.op \in BuilderOps /\ ~lastOp'.hit)
            => /\ Wrapper = 0
               /\ StoredPromises = {}
               /\ StoredPromises' = {lastOp'.ret.id}]_vars

C16_Witness ==
    /\ lastOp.op = "makeUntrackedRootParams" /\ lastOp.hit
    /\ promises[Wrapper].origin = "hanging"
    /\ StoredPromises = {Wrapper}
    /\ nextId = 2

\* C17: a resolver call inside a render under the prerender unit invokes
\* neither the suspend nor the abort primitive and does not end in an error,
\* whatever the ParamSet and the placeholder keys; apart from the record of the
\* dynamic access, the only primitive it may call is makeHangingPromise, bound
\* to the render signal, and only when a placeholder key is present.
C17_NoEagerInterruption ==
    (ResolverCallInRender /\ lastOp.unit.type = "prerender")
        => /\ Invocations("postponeWithTracking") = 0
           /\ Invocations("throwToInterruptStaticGeneration") = 0
           /\ lastOp.ret.state = "fulfilled"
           /\ \A i \in DOMAIN lastOp.effects :
                 \/ lastOp.effects[i].prim = "trackDynamicDataInDynamicRender"
                 \/ /\ lastOp.effects[i].prim = "makeHangingPromise"
                    /\ lastOp.effects[i].handle = "renderSignal"
                    /\ SomePlaceholderPresent

C17_Witness ==
    /\ ResolverCallInRender /\ lastOp.unit.type = "prerender"
    /\ SomePlaceholderPresent
    /\ lastOp.effects[1].prim = "makeHangingPromise"
    /\ lastOp.ret.state = "fulfilled"
    /\ Wrapper # 0 /\ promises[Wrapper].origin = "hanging"

\* the last operation built a promise with own properties
BuiltWithProperties ==
    /\ lastOp.op \in BuilderOps /\ ~lastOp.hit
    /\ lastOp.path \in {"untracked", "erroring"}

\* C18: on the promise the untracked or the erroring builder has just built,
\* no key of the ParamSet that is a reserved name is defined, neither as a data
\* property nor as an accessor, also when it is a placeholder key; every other
\* key of the ParamSet is defined.
C18_ReservedNamesNotShadowed ==
    BuiltWithProperties
        => \A k \in DOMAIN RootParamSet :
             IF k \in wellKnownProperties
             THEN promises[lastOp.ret.id].props[k] = NoProp
             ELSE promises[lastOp.ret.id].props[k].kind \in {"data", "accessor"}

C18_Witness ==
    /\ BuiltWithProperties /\ lastOp.path = "erroring"
    /\ "then" \in DOMAIN RootParamSet /\ "then" \in PlaceholderKeys
    /\ promises[lastOp.ret.id].props["then"] = NoProp
    /\ "lang" \in DOMAIN RootParamSet
    /\ promises[lastOp.ret.id].props["lang"].kind = "accessor"

\* C19: over all resolver calls under all work unit stores, no promise is ever
\* built by the erroring builder and no promise ever has a trapped key; a
\* resolver call under any work unit store other than prerender - and one made
\* outside a render - leaves CachedParams as it is and builds no promise
\* through a builder path.
C19_BuildersReachability ==
    /\ [](\A i \in Ids :
            /\ promises[i].origin # "erroring"
            /\ \A k \in Keys : promises[i].props[k].kind # "accessor")
    /\ [][(lastOp'.op = "unstable_rootParams"
             /\ (lastOp'.unit.type # "prerender" \/ ~lastOp'.present))
            => /\ CachedParams' = CachedParams
               /\ StoredPromises' = StoredPromises]_vars

C19_Witness ==
    /\ ResolverCallInRender /\ lastOp.unit.type = "prerender-legacy"
    /\ SomePlaceholderPresent
    /\ "lang" \in DOMAIN RootParamSet /\ "lang" \in PlaceholderKeys
    /\ Len(results) = MaxCalls
    /\ Wrapper = 0 /\ StoredPromises = {}

\* C20: no builder call, read or write changes the ParamSet; a write to one key
\* of the render's promise changes the property of that key only: every other
\* key's property, the settlement of the promise, every other promise and
\* CachedParams stay as they were.
C20_FrameOfWrapperOperations ==
    [][/\ (lastOp'.op \in BuilderOps \cup {"read", "write"}) => params' = params
       /\ lastOp'.op = "write"
            => /\ CachedParams' = CachedParams
               /\ \A i \in Ids \ {Wrapper} : promises'[i] = promises[i]
               /\ \A k \in Keys \ {lastOp'.key} :
                     promises'[Wrapper].props[k] = promises[Wrapper].props[k]
               /\ promises'[Wrapper].state = promises[Wrapper].state
               /\ promises'[Wrapper].value = promises[Wrapper].value]_vars

C20_Witness ==
    /\ ErroringWrapper /\ lastOp.op = "write" /\ lastOp.key = "lang"
    /\ promises[Wrapper].props["lang"] = DataProp("w2")
    /\ TrappedAtBuild("locale") /\ written["locale"] = "-"
    /\ promises[Wrapper].props["locale"].kind = "accessor"
    /\ RootParamSet["lang"] = ParamValue("lang", PlaceholderKeys)

====
